---- MODULE Spec2Model ----
(***************************************************************************)
(* Model of the management command create_demo_assignment                  *)
(* (apps/learning/management/commands/create_demo_assignment.py) and of    *)
(* the markdown rendering utility exercised by apps/core/tests.            *)
(*                                                                         *)
(* Strings the code parses (title, --deadline, --weight, markdown text)    *)
(* are sequences of one-character strings, so that strip(), strptime()     *)
(* and Decimal() are computed character by character.                      *)
(***************************************************************************)
EXTENDS Integers, Sequences, FiniteSets, TLC

VARIABLES
    pc,          \* position of Command.handle: "idle", a step label, or an outcome
    argv,        \* the command line of the current invocation
    options,     \* the parsed options dict handed to handle()
    loc,         \* local variables of handle()
    todo,        \* StudentAssignment ids the stats loop still has to visit
    log,         \* events of the current run, in order (writes, stats calls, stdout)
    runs,        \* number of invocations started so far
    assignments, \* table Assignment
    sas,         \* table StudentAssignment
    cts,         \* table CourseTeacher
    comments,    \* table AssignmentComment
    db0,         \* the four tables as they were when the current run started
    prev,        \* outcome and tables at the end of the previous run
    mdText,      \* input of render_markdown
    mdHtml,      \* output of render_markdown
    mdPc         \* "in" before render_markdown ran, "out" after

vars == <<pc, argv, options, loc, todo, log, runs, assignments, sas, cts,
          comments, db0, prev, mdText, mdHtml, mdPc>>

cmdVars == <<pc, argv, options, loc, todo, log, runs, assignments, sas, cts,
             comments, db0, prev>>

mdVars == <<mdText, mdHtml, mdPc>>

(***************************************************************************)
(* Bounds                                                                  *)
(***************************************************************************)
\* invocations of the command in one behaviour (the first with any command
\* line, the later ones repeating it)
MaxRuns == 2

\* longest markdown input, in tokens
MaxMdLen == 4

(***************************************************************************)
(* Characters                                                              *)
(***************************************************************************)
Digits == <<"0", "1", "2", "3", "4", "5", "6", "7", "8", "9">>

IsDigit(c) == \E i \in 1..10 : Digits[i] = c

DigitVal(c) == (CHOOSE i \in 1..10 : Digits[i] = c) - 1

IsSpace(c) == c \in {" ", "\t"}

AllDigits(s) == \A i \in 1..Len(s) : IsDigit(s[i])

RECURSIVE IntOf(_)
IntOf(s) == IF s = <<>> THEN 0
            ELSE 10 * IntOf(SubSeq(s, 1, Len(s) - 1)) + DigitVal(s[Len(s)])

\* str.strip(): drop leading and trailing whitespace
RECURSIVE LStrip(_)
LStrip(s) == IF s # <<>> /\ IsSpace(s[1]) THEN LStrip(Tail(s)) ELSE s

RECURSIVE RStrip(_)
RStrip(s) == IF s # <<>> /\ IsSpace(s[Len(s)])
             THEN RStrip(SubSeq(s, 1, Len(s) - 1)) ELSE s

Strip(s) == RStrip(LStrip(s))

(***************************************************************************)
(* datetime.strptime(text, "%Y-%m-%d %H:%M")  (handle, line 87)            *)
(*                                                                         *)
(* The format compiles to the regular expression                           *)
(*   (\d\d\d\d)-(1[0-2]|0[1-9]|[1-9])-(3[01]|[12]\d|0[1-9]|[1-9])\s+       *)
(*   (2[0-3]|[0-1]\d|\d):([0-5]\d|\d)                                      *)
(* which must match the whole text; the fields then go through the         *)
(* datetime constructor, which rejects year 0 and a day the month lacks.   *)
(* A layout is the lengths <<month, day, whitespace, hour, minute>>.       *)
(***************************************************************************)
Field(s, from, n) == SubSeq(s, from, from + n - 1)

InRange(f, lo, hi) == AllDigits(f) /\ IntOf(f) >= lo /\ IntOf(f) <= hi

Layouts(s) ==
    { l \in (1..2) \X (1..2) \X (1..Len(s)) \X (1..2) \X (1..2) :
        /\ Len(s) = 4 + 1 + l[1] + 1 + l[2] + l[3] + l[4] + 1 + l[5]
        /\ AllDigits(Field(s, 1, 4))
        /\ s[5] = "-"
        /\ InRange(Field(s, 6, l[1]), 1, 12)
        /\ s[6 + l[1]] = "-"
        /\ InRange(Field(s, 7 + l[1], l[2]), 1, 31)
        /\ \A i \in 1..l[3] : IsSpace(s[6 + l[1] + l[2] + i])
        /\ InRange(Field(s, 7 + l[1] + l[2] + l[3], l[4]), 0, 23)
        /\ s[7 + l[1] + l[2] + l[3] + l[4]] = ":"
        /\ InRange(Field(s, 8 + l[1] + l[2] + l[3] + l[4], l[5]), 0, 59) }

IsLeap(y) == (y % 4 = 0) /\ ((y % 100 # 0) \/ (y % 400 = 0))

DaysInMonth(y, m) ==
    IF m = 2 THEN (IF IsLeap(y) THEN 29 ELSE 28)
    ELSE IF m \in {4, 6, 9, 11} THEN 30 ELSE 31

NoDate == [year |-> 0, month |-> 0, day |-> 0, hour |-> 0, minute |-> 0]

FieldsOf(s, l) ==
    [year   |-> IntOf(Field(s, 1, 4)),
     month  |-> IntOf(Field(s, 6, l[1])),
     day    |-> IntOf(Field(s, 7 + l[1], l[2])),
     hour   |-> IntOf(Field(s, 7 + l[1] + l[2] + l[3], l[4])),
     minute |-> IntOf(Field(s, 8 + l[1] + l[2] + l[3] + l[4], l[5]))]

\* [ok |-> FALSE] stands for ValueError
Strptime(s) ==
    IF Layouts(s) = {} THEN [ok |-> FALSE, dt |-> NoDate]
    ELSE LET dt == FieldsOf(s, CHOOSE l \in Layouts(s) : TRUE)
         IN  IF dt.year >= 1 /\ dt.day <= DaysInMonth(dt.year, dt.month)
             THEN [ok |-> TRUE, dt |-> dt]
             ELSE [ok |-> FALSE, dt |-> NoDate]

\* timezone.make_aware(dt, timezone.utc)  (handle, line 90)
MakeAwareUtc(dt) == [naive |-> dt, tzinfo |-> "UTC"]

(***************************************************************************)
(* decimal.Decimal(text)  (handle, line 95)                                *)
(*                                                                         *)
(* The text is stripped of surrounding whitespace and must then read       *)
(* [sign] digits [. digits] with at least one digit.  The value keeps the  *)
(* digits as coefficient and the number of fraction digits as exponent.    *)
(* Exponent notation and the special values are outside the alphabet of    *)
(* the command lines drawn here.                                           *)
(***************************************************************************)
NoDecimal == [sign |-> 0, coef |-> 0, exp |-> 0]

Unsigned(s) ==
    LET dots == {i \in 1..Len(s) : s[i] = "."}
    IN  IF dots = {}
        THEN IF s # <<>> /\ AllDigits(s)
             THEN [ok |-> TRUE, d |-> [sign |-> 0, coef |-> IntOf(s), exp |-> 0]]
             ELSE [ok |-> FALSE, d |-> NoDecimal]
        ELSE LET k    == CHOOSE i \in dots : \A j \in dots : i <= j
                 int  == SubSeq(s, 1, k - 1)
                 frac == SubSeq(s, k + 1, Len(s))
             IN  IF AllDigits(int) /\ AllDigits(frac) /\ Len(int) + Len(frac) >= 1
                 THEN [ok |-> TRUE,
                       d  |-> [sign |-> 0, coef |-> IntOf(int \o frac),
                               exp |-> 0 - Len(frac)]]
                 ELSE [ok |-> FALSE, d |-> NoDecimal]

\* [ok |-> FALSE] stands for decimal.InvalidOperation
DecimalOf(text) ==
    LET s == Strip(text)
    IN  IF s # <<>> /\ s[1] \in {"+", "-"}
        THEN LET u == Unsigned(Tail(s))
             IN  [ok |-> u.ok,
                  d  |-> [u.d EXCEPT !.sign = IF u.ok /\ s[1] = "-" THEN 1 ELSE 0]]
        ELSE Unsigned(s)

(***************************************************************************)
(* Stored data the command reads but never writes                          *)
(***************************************************************************)
\* Course rows: meta_course name and the time zone of the main branch
\* (has_branch_tz = FALSE: main_branch gives no time_zone attribute)
Courses ==
    { [id |-> 1, meta_name |-> "ml", has_branch_tz |-> TRUE,
       branch_tz |-> "Europe/Moscow"],
      [id |-> 2, meta_name |-> "ml", has_branch_tz |-> FALSE,
       branch_tz |-> ""] }

\* usernames of the User table
Users == {"alice", "dan", "bob"}

\* students enrolled in a course, in enrollment order
Enrolled(course) == IF course = 1 THEN <<"alice", "dan">> ELSE <<>>

(***************************************************************************)
(* Tables                                                                  *)
(***************************************************************************)
Ids(table) == {r.id : r \in table}

NextId(table) ==
    IF table = {} THEN 1
    ELSE (CHOOSE i \in Ids(table) : \A j \in Ids(table) : j <= i) + 1

Row(table, id) == CHOOSE r \in table : r.id = id

Tables == [assignments |-> assignments, sas |-> sas, cts |-> cts,
           comments |-> comments]

\* ids of a table in ascending order
RECURSIVE SortedIds(_)
SortedIds(ids) ==
    IF ids = {} THEN <<>>
    ELSE LET m == CHOOSE i \in ids : \A j \in ids : i <= j
         IN  <<m>> \o SortedIds(ids \ {m})

OldDeadline == MakeAwareUtc([year |-> 2020, month |-> 1, day |-> 1,
                             hour |-> 0, minute |-> 0])

OldAssignment(id, course) ==
    [id |-> id, course |-> course, title |-> <<"h", "w">>, text |-> "Old text",
     deadline_at |-> OldDeadline, maximum_score |-> 3,
     weight |-> [sign |-> 0, coef |-> 2, exp |-> 0],
     submission_type |-> "offline", time_zone |-> "Asia/Tokyo",
     assignee_mode |-> "disabled"]

NewSA(id, assignment, student) ==
    [id |-> id, assignment |-> assignment, student |-> student, assignee |-> 0,
     status |-> "not_submitted", stats |-> {}]

\* states of the database the command can be started on
InitialDatabases ==
    { \* nothing seeded yet
      [assignments |-> {}, sas |-> {}, cts |-> {}, comments |-> {}],
      \* the assignment exists with other field values; one student has a record
      [assignments |-> {OldAssignment(1, 1)},
       sas |-> {NewSA(1, 1, "alice")}, cts |-> {}, comments |-> {}],
      \* as above, already under review with a solution, teacher is lecturer only
      [assignments |-> {OldAssignment(1, 1)},
       sas |-> {[NewSA(1, 1, "alice") EXCEPT !.assignee = 1,
                                             !.status = "on_checking"]},
       cts |-> {[id |-> 1, course |-> 1, teacher |-> "bob",
                 roles |-> {"lecturer"}]},
       comments |-> {[id |-> 1, student_assignment |-> 1, type |-> "solution",
                      text |-> "Earlier solution", author |-> "alice",
                      is_published |-> TRUE]}],
      \* two rows share course and title (no uniqueness constraint on the pair)
      [assignments |-> {OldAssignment(1, 1), OldAssignment(2, 1)},
       sas |-> {}, cts |-> {}, comments |-> {}] }

(***************************************************************************)
(* Command lines.  An optional argument is the empty set when absent and   *)
(* a singleton when given.                                                 *)
(***************************************************************************)
CourseSelectors ==
    { [course_id |-> {1}, course_name |-> {}],
      [course_id |-> {9}, course_name |-> {}],
      [course_id |-> {}, course_name |-> {"ml"}],
      [course_id |-> {}, course_name |-> {"zz"}] }

TitleArgs == { <<"h", "w">>, <<" ", "h", "w", " ">> }

DeadlineArgs ==
    { <<"2","0","2","4","-","0","2","-","2","9"," ","1","0",":","3","0">>,
      <<"2","0","2","4","-","2","-","9"," "," ","7",":","0","5">>,
      <<"2","0","2","3","-","0","2","-","2","9"," ","1","0",":","3","0">>,
      <<"2","0","2","4","/","0","2","/","2","9"," ","1","0",":","3","0">> }

SubmissionTypeArgs == { {}, {"offline"} }

MaxScoreArgs == { {}, {0}, {5} }

WeightArgs == { {}, {<<" ", "0", ".", "5">>}, {<<"1", ",", "5">>} }

ReviewArgs ==
    { [seed_review |-> FALSE, student_username |-> {}, teacher_username |-> {}] }
    \cup [seed_review : {TRUE},
          student_username : { {}, {"alice"}, {"ghost"} },
          teacher_username : { {}, {"bob"}, {"ghost"} }]

CommandLines ==
    { [course |-> c, title |-> t, deadline |-> d, submission_type |-> st,
       max_score |-> ms, weight |-> w, review |-> r] :
        c \in CourseSelectors, t \in TitleArgs, d \in DeadlineArgs,
        st \in SubmissionTypeArgs, ms \in MaxScoreArgs, w \in WeightArgs,
        r \in ReviewArgs }

The(opt) == CHOOSE x \in opt : TRUE

DefaultMaxScore == 10

DefaultWeight == <<"1", ".", "0", "0">>

\* add_arguments: the options dict argparse builds from a command line
AddArguments(a) ==
    [course_id        |-> a.course.course_id,
     course_name      |-> a.course.course_name,
     title            |-> a.title,
     deadline         |-> a.deadline,
     submission_type  |-> IF a.submission_type = {} THEN "online"
                          ELSE The(a.submission_type),
     max_score        |-> IF a.max_score = {} THEN DefaultMaxScore
                          ELSE The(a.max_score),
     weight           |-> IF a.weight = {} THEN DefaultWeight ELSE The(a.weight),
     seed_review      |-> a.review.seed_review,
     student_username |-> a.review.student_username,
     teacher_username |-> a.review.teacher_username]

(***************************************************************************)
(* Services the command calls                                              *)
(***************************************************************************)
Ev(name, id) == [ev |-> name, id |-> id]

\* AssignmentService.bulk_create_student_assignments(assignment): one
\* StudentAssignment for every enrolled student who has none yet
RECURSIVE BulkCreateFor(_, _, _)
BulkCreateFor(table, assignment, students) ==
    IF students = <<>> THEN table
    ELSE LET st   == Head(students)
             have == \E r \in table : r.assignment = assignment /\ r.student = st
             next == IF have THEN table
                     ELSE table \cup {NewSA(NextId(table), assignment, st)}
         IN  BulkCreateFor(next, assignment, Tail(students))

BulkCreateStudentAssignments(table, a) ==
    BulkCreateFor(table, a.id, Enrolled(a.course))

\* update_student_assignment_stats(sa_id): recompute the record's statistics
\* from its published comments
UpdateStudentAssignmentStats(table, coms, id) ==
    { IF r.id = id
      THEN [r EXCEPT !.stats =
               {Cardinality({c \in coms : /\ c.student_assignment = id
                                          /\ c.type = "solution"
                                          /\ c.is_published})}]
      ELSE r : r \in table }

(***************************************************************************)
(* Command.handle, step by step                                            *)
(***************************************************************************)
NoCourse == 0

LocInit ==
    [course |-> NoCourse, title |-> <<>>, deadline_utc |-> MakeAwareUtc(NoDate),
     submission_type |-> "", max_score |-> 0, weight |-> NoDecimal,
     tz_name |-> "", assignment |-> 0, created |-> FALSE]

Falsy(opt) == opt = {} \/ opt = {""}

Outcomes == {"done", "command_error", "crashed"}

\* lines 75-81: the course by primary key, or the newest one of that name
FindCourse(o) ==
    LET found == IF o.course_id # {}
                 THEN {c.id : c \in {c \in Courses : c.id = The(o.course_id)}}
                 ELSE {c.id : c \in {c \in Courses :
                                       c.meta_name = The(o.course_name)}}
    IN  IF found = {} THEN NoCourse
        ELSE CHOOSE i \in found : \A j \in found : j <= i

\* line 93
MaxScoreOf(o) == IF o.max_score # 0 THEN o.max_score ELSE 10

\* line 100
TzNameOf(course) ==
    LET c == CHOOSE c \in Courses : c.id = course
    IN  IF c.has_branch_tz THEN c.branch_tz ELSE "UTC"

\* lines 106-114: the row get_or_create inserts
CreatedAssignment(id, l) ==
    [id |-> id, course |-> l.course, title |-> l.title,
     text |-> "Seeded assignment", deadline_at |-> l.deadline_utc,
     maximum_score |-> l.max_score, weight |-> l.weight,
     submission_type |-> l.submission_type, time_zone |-> l.tz_name,
     assignee_mode |-> "manual"]

\* lines 118-126: the fields saved on a row that already existed
UpdatedAssignment(row, l) ==
    [row EXCEPT !.deadline_at = l.deadline_utc,
                !.maximum_score = l.max_score,
                !.weight = l.weight,
                !.submission_type = l.submission_type,
                !.time_zone = l.tz_name,
                !.assignee_mode = "manual"]

\* the rows Assignment.objects.get(course=..., title=...) matches
Matching(table, l) == {r \in table : r.course = l.course /\ r.title = l.title}

\* line 132: the queryset the stats loop iterates
StatsTargets(table, assignment) ==
    SortedIds({r.id : r \in {r \in table : r.assignment = assignment}})

(***************************************************************************)
(* Faulty variants of _seed_review_item: what a slip in it would do         *)
(***************************************************************************)
\* recalculates the stats before the assignee, status and comment are written
SeedReviewItem_StatsFirst(course, assignment, student, teacher, bitfield_ok) ==
    IF student \notin Users \/ teacher \notin Users
    THEN [cts |-> cts, sas |-> sas, comments |-> comments,
          events |-> <<Ev("warning_user_not_found", 0)>>]
    ELSE
    LET links  == {r \in cts : r.course = course /\ r.teacher = teacher}
        got    == IF links # {}
                  THEN CHOOSE r \in links : \A q \in links : r.id <= q.id
                  ELSE [id |-> NextId(cts), course |-> course,
                        teacher |-> teacher, roles |-> {}]
        ct     == IF bitfield_ok
                  THEN [got EXCEPT !.roles = @ \cup {"reviewer", "lecturer"}]
                  ELSE got
        cts1   == (cts \ {got}) \cup {ct}
        mine   == {r \in sas : r.assignment = assignment /\ r.student = student}
    IN  IF mine = {}
        THEN [cts |-> cts1, sas |-> sas, comments |-> comments,
              events |-> <<Ev("ct_saved", ct.id),
                           Ev("warning_sa_not_found", 0)>>]
        ELSE
        LET sa     == CHOOSE r \in mine : \A q \in mine : r.id <= q.id
            sas0   == UpdateStudentAssignmentStats(sas, comments, sa.id)
            sa0    == CHOOSE r \in sas0 : r.id = sa.id
            sa1    == [sa0 EXCEPT !.assignee = ct.id, !.status = "on_checking"]
            sas1   == (sas0 \ {sa0}) \cup {sa1}
            sols   == {c \in comments : /\ c.student_assignment = sa.id
                                        /\ c.type = "solution"}
            newc   == [id |-> NextId(comments), student_assignment |-> sa.id,
                       type |-> "solution",
                       text |-> "Seeded solution for review",
                       author |-> student, is_published |-> TRUE]
            coms1  == IF sols = {} THEN comments \cup {newc} ELSE comments
            made   == IF sols = {} THEN <<Ev("comment_created", newc.id)>>
                      ELSE <<>>
        IN  [cts |-> cts1, sas |-> sas1, comments |-> coms1,
             events |-> <<Ev("ct_saved", ct.id), Ev("stats", sa.id),
                          Ev("sa_saved", sa.id)>>
                        \o made \o <<Ev("ok_review", sa.id)>>]

\* creates a solution comment without looking for an existing one
SeedReviewItem_AlwaysComment(course, assignment, student, teacher, bitfield_ok) ==
    IF student \notin Users \/ teacher \notin Users
    THEN [cts |-> cts, sas |-> sas, comments |-> comments,
          events |-> <<Ev("warning_user_not_found", 0)>>]
    ELSE
    LET links  == {r \in cts : r.course = course /\ r.teacher = teacher}
        got    == IF links # {}
                  THEN CHOOSE r \in links : \A q \in links : r.id <= q.id
                  ELSE [id |-> NextId(cts), course |-> course,
                        teacher |-> teacher, roles |-> {}]
        ct     == IF bitfield_ok
                  THEN [got EXCEPT !.roles = @ \cup {"reviewer", "lecturer"}]
                  ELSE got
        cts1   == (cts \ {got}) \cup {ct}
        mine   == {r \in sas : r.assignment = assignment /\ r.student = student}
    IN  IF mine = {}
        THEN [cts |-> cts1, sas |-> sas, comments |-> comments,
              events |-> <<Ev("ct_saved", ct.id),
                           Ev("warning_sa_not_found", 0)>>]
        ELSE
        LET sa     == CHOOSE r \in mine : \A q \in mine : r.id <= q.id
            sa1    == [sa EXCEPT !.assignee = ct.id, !.status = "on_checking"]
            sas1   == (sas \ {sa}) \cup {sa1}
            newc   == [id |-> NextId(comments), student_assignment |-> sa.id,
                       type |-> "solution",
                       text |-> "Seeded solution for review",
                       author |-> student, is_published |-> TRUE]
            coms1  == comments \cup {newc}
        IN  [cts |-> cts1,
             sas |-> UpdateStudentAssignmentStats(sas1, coms1, sa.id),
             comments |-> coms1,
             events |-> <<Ev("ct_saved", ct.id), Ev("sa_saved", sa.id),
                          Ev("comment_created", newc.id),
                          Ev("stats", sa.id), Ev("ok_review", sa.id)>>]

(***************************************************************************)
(* Command._seed_review_item (lines 159-204).  The result is the three     *)
(* tables it may write and the events it produced, in order.  bitfield_ok  *)
(* is whether the roles assignment and ct.save() of lines 172-174 went     *)
(* through or ended in the except branch.                                  *)
(***************************************************************************)
SeedReviewItem(course, assignment, student, teacher, bitfield_ok) ==
    IF student \notin Users \/ teacher \notin Users
    THEN [cts |-> cts, sas |-> sas, comments |-> comments,
          events |-> <<Ev("warning_user_not_found", 0)>>]
    ELSE
    LET links  == {r \in cts : r.course = course /\ r.teacher = teacher}
        got    == IF links # {}
                  THEN CHOOSE r \in links : \A q \in links : r.id <= q.id
                  ELSE [id |-> NextId(cts), course |-> course,
                        teacher |-> teacher, roles |-> {}]
        ct     == IF bitfield_ok
                  THEN [got EXCEPT !.roles = @ \cup {"reviewer", "lecturer"}]
                  ELSE got
        cts1   == (cts \ {got}) \cup {ct}
        mine   == {r \in sas : r.assignment = assignment /\ r.student = student}
    IN  IF mine = {}
        THEN [cts |-> cts1, sas |-> sas, comments |-> comments,
              events |-> <<Ev("ct_saved", ct.id),
                           Ev("warning_sa_not_found", 0)>>]
        ELSE
        LET sa     == CHOOSE r \in mine : \A q \in mine : r.id <= q.id
            sa1    == [sa EXCEPT !.assignee = ct.id, !.status = "on_checking"]
            sas1   == (sas \ {sa}) \cup {sa1}
            sols   == {c \in comments : /\ c.student_assignment = sa.id
                                        /\ c.type = "solution"}
            newc   == [id |-> NextId(comments), student_assignment |-> sa.id,
                       type |-> "solution",
                       text |-> "Seeded solution for review",
                       author |-> student, is_published |-> TRUE]
            coms1  == IF sols = {} THEN comments \cup {newc} ELSE comments
            made   == IF sols = {} THEN <<Ev("comment_created", newc.id)>>
                      ELSE <<>>
        IN  [cts |-> cts1,
             sas |-> UpdateStudentAssignmentStats(sas1, coms1, sa.id),
             comments |-> coms1,
             events |-> <<Ev("ct_saved", ct.id), Ev("sa_saved", sa.id)>>
                        \o made
                        \o <<Ev("stats", sa.id), Ev("ok_review", sa.id)>>]

(***************************************************************************)
(* Actions                                                                 *)
(***************************************************************************)
StartRun(a) ==
    /\ argv' = a
    /\ options' = AddArguments(a)
    /\ loc' = LocInit
    /\ todo' = <<>>
    /\ log' = <<>>
    /\ runs' = runs + 1
    /\ db0' = Tables
    /\ prev' = pc
    /\ pc' = "lookup_course"
    /\ UNCHANGED <<assignments, sas, cts, comments>>

\* the command is run with some command line
Invoke ==
    /\ pc = "idle"
    /\ \E a \in CommandLines : StartRun(a)
    /\ UNCHANGED mdVars

\* the command is run again with the same command line
Rerun ==
    /\ pc \in Outcomes
    /\ runs < MaxRuns
    /\ StartRun(argv)
    /\ UNCHANGED mdVars

\* lines 74-83
LookupCourse ==
    /\ pc = "lookup_course"
    /\ LET course == FindCourse(options)
       IN  IF course = NoCourse
           THEN /\ pc' = "command_error"
                /\ log' = Append(log, Ev("error_course", 0))
                /\ loc' = loc
           ELSE /\ pc' = "parse_deadline"
                /\ log' = log
                /\ loc' = [loc EXCEPT !.course = course]
    /\ UNCHANGED <<argv, options, todo, runs, assignments, sas, cts, comments,
                   db0, prev, mdVars>>

\* faulty variant: the Assignment row is inserted before the deadline is parsed
ParseDeadline_AfterInsert ==
    /\ pc = "parse_deadline"
    /\ LET parsed == Strptime(options.deadline)
           l1     == [loc EXCEPT !.title = Strip(options.title)]
       IN  /\ assignments' =
                 IF Matching(assignments, l1) = {}
                 THEN assignments \cup {CreatedAssignment(NextId(assignments), l1)}
                 ELSE assignments
           /\ IF ~parsed.ok
              THEN /\ pc' = "command_error"
                   /\ log' = Append(log, Ev("error_deadline", 0))
                   /\ loc' = l1
              ELSE /\ pc' = "parse_weight"
                   /\ log' = log
                   /\ loc' = [l1 EXCEPT !.deadline_utc = MakeAwareUtc(parsed.dt)]
    /\ UNCHANGED <<argv, options, todo, runs, sas, cts, comments, db0, prev,
                   mdVars>>

\* lines 85-90
ParseDeadline ==
    /\ pc = "parse_deadline"
    /\ LET parsed == Strptime(options.deadline)
       IN  IF ~parsed.ok
           THEN /\ pc' = "command_error"
                /\ log' = Append(log, Ev("error_deadline", 0))
                /\ loc' = [loc EXCEPT !.title = Strip(options.title)]
           ELSE /\ pc' = "parse_weight"
                /\ log' = log
                /\ loc' = [loc EXCEPT !.title = Strip(options.title),
                                      !.deadline_utc = MakeAwareUtc(parsed.dt)]
    /\ UNCHANGED <<argv, options, todo, runs, assignments, sas, cts, comments,
                   db0, prev, mdVars>>

\* faulty variant: a weight Decimal rejects falls back to the default weight
ParseWeight_Unchecked ==
    /\ pc = "parse_weight"
    /\ LET parsed == DecimalOf(options.weight)
           l1     == [loc EXCEPT !.submission_type = options.submission_type,
                                 !.max_score = MaxScoreOf(options)]
       IN  /\ pc' = "get_or_create"
           /\ log' = log
           /\ loc' = [l1 EXCEPT !.weight = IF parsed.ok THEN parsed.d
                                           ELSE DecimalOf(DefaultWeight).d,
                                !.tz_name = TzNameOf(loc.course)]
    /\ UNCHANGED <<argv, options, todo, runs, assignments, sas, cts, comments,
                   db0, prev, mdVars>>

\* lines 92-100
ParseWeight ==
    /\ pc = "parse_weight"
    /\ LET parsed == DecimalOf(options.weight)
           l1     == [loc EXCEPT !.submission_type = options.submission_type,
                                 !.max_score = MaxScoreOf(options)]
       IN  IF ~parsed.ok
           THEN /\ pc' = "command_error"
                /\ log' = Append(log, Ev("error_weight", 0))
                /\ loc' = l1
           ELSE /\ pc' = "get_or_create"
                /\ log' = log
                /\ loc' = [l1 EXCEPT !.weight = parsed.d,
                                     !.tz_name = TzNameOf(loc.course)]
    /\ UNCHANGED <<argv, options, todo, runs, assignments, sas, cts, comments,
                   db0, prev, mdVars>>

\* lines 103-126; more than one matching row makes get() raise
\* MultipleObjectsReturned, which handle does not catch
GetOrCreate ==
    /\ pc = "get_or_create"
    /\ LET found == Matching(assignments, loc)
       IN  IF Cardinality(found) > 1
           THEN /\ pc' = "crashed"
                /\ log' = Append(log, Ev("multiple_objects_returned", 0))
                /\ UNCHANGED <<loc, assignments>>
           ELSE IF found = {}
           THEN LET row == CreatedAssignment(NextId(assignments), loc)
                IN  /\ assignments' = assignments \cup {row}
                    /\ loc' = [loc EXCEPT !.assignment = row.id,
                                          !.created = TRUE]
                    /\ log' = Append(log, Ev("assignment_created", row.id))
                    /\ pc' = "bulk_create"
           ELSE LET old == CHOOSE r \in found : TRUE
                    row == UpdatedAssignment(old, loc)
                IN  /\ assignments' = (assignments \ {old}) \cup {row}
                    /\ loc' = [loc EXCEPT !.assignment = row.id,
                                          !.created = FALSE]
                    /\ log' = Append(log, Ev("assignment_updated", row.id))
                    /\ pc' = "bulk_create"
    /\ UNCHANGED <<argv, options, todo, runs, sas, cts, comments, db0, prev,
                   mdVars>>

\* faulty variant: the stats loop's queryset is evaluated before the bulk creation
BulkCreate_QueryFirst ==
    /\ pc = "bulk_create"
    /\ sas' = BulkCreateStudentAssignments(sas, Row(assignments, loc.assignment))
    /\ todo' = StatsTargets(sas, loc.assignment)
    /\ log' = Append(log, Ev("bulk_create", loc.assignment))
    /\ pc' = "stats"
    /\ UNCHANGED <<argv, options, loc, runs, assignments, cts, comments, db0,
                   prev, mdVars>>

\* line 129, and the evaluation of the queryset of line 132
BulkCreate ==
    /\ pc = "bulk_create"
    /\ sas' = BulkCreateStudentAssignments(sas, Row(assignments, loc.assignment))
    /\ todo' = StatsTargets(sas', loc.assignment)
    /\ log' = Append(log, Ev("bulk_create", loc.assignment))
    /\ pc' = "stats"
    /\ UNCHANGED <<argv, options, loc, runs, assignments, cts, comments, db0,
                   prev, mdVars>>

\* line 133: one iteration of the stats loop
RecalcStats ==
    /\ pc = "stats"
    /\ todo # <<>>
    /\ sas' = UpdateStudentAssignmentStats(sas, comments, Head(todo))
    /\ log' = Append(log, Ev("stats", Head(todo)))
    /\ todo' = Tail(todo)
    /\ UNCHANGED <<pc, argv, options, loc, runs, assignments, cts, comments,
                   db0, prev, mdVars>>

\* faulty variant: missing username options are a command error
SeedReview_Strict ==
    /\ pc = "stats"
    /\ todo = <<>>
    /\ IF ~options.seed_review
       THEN /\ pc' = "write_ok"
            /\ UNCHANGED <<log, sas, cts, comments>>
       ELSE IF Falsy(options.student_username) \/ Falsy(options.teacher_username)
       THEN /\ pc' = "command_error"
            /\ log' = Append(log, Ev("error_usernames_required", 0))
            /\ UNCHANGED <<sas, cts, comments>>
       ELSE \E bitfield_ok \in BOOLEAN :
              LET r == SeedReviewItem(loc.course, loc.assignment,
                                      The(options.student_username),
                                      The(options.teacher_username),
                                      bitfield_ok)
              IN  /\ pc' = "write_ok"
                  /\ cts' = r.cts
                  /\ sas' = r.sas
                  /\ comments' = r.comments
                  /\ log' = log \o r.events
    /\ UNCHANGED <<argv, options, loc, todo, runs, assignments, db0, prev,
                   mdVars>>

\* lines 136-151, with the call of _seed_review_item
SeedReview ==
    /\ pc = "stats"
    /\ todo = <<>>
    /\ pc' = "write_ok"
    /\ IF ~options.seed_review
       THEN UNCHANGED <<log, sas, cts, comments>>
       ELSE IF Falsy(options.student_username) \/ Falsy(options.teacher_username)
       THEN /\ log' = Append(log, Ev("warning_usernames_required", 0))
            /\ UNCHANGED <<sas, cts, comments>>
       ELSE \E bitfield_ok \in BOOLEAN :
              LET r == SeedReviewItem(loc.course, loc.assignment,
                                      The(options.student_username),
                                      The(options.teacher_username),
                                      bitfield_ok)
              IN  /\ cts' = r.cts
                  /\ sas' = r.sas
                  /\ comments' = r.comments
                  /\ log' = log \o r.events
    /\ UNCHANGED <<argv, options, loc, todo, runs, assignments, db0, prev,
                   mdVars>>

\* lines 153-157
WriteOk ==
    /\ pc = "write_ok"
    /\ log' = Append(log, Ev("ok_assignment", loc.assignment))
    /\ pc' = "done"
    /\ UNCHANGED <<argv, options, loc, todo, runs, assignments, sas, cts,
                   comments, db0, prev, mdVars>>

NoArgv == CHOOSE a \in CommandLines : TRUE

Init ==
    /\ pc = "idle"
    /\ argv = NoArgv
    /\ options = AddArguments(NoArgv)
    /\ loc = LocInit
    /\ todo = <<>>
    /\ log = <<>>
    /\ runs = 0
    /\ \E db \in InitialDatabases :
         /\ assignments = db.assignments
         /\ sas = db.sas
         /\ cts = db.cts
         /\ comments = db.comments
         /\ db0 = db
    /\ prev = "idle"
    /\ mdText = <<>>
    /\ mdHtml = <<>>
    /\ mdPc = "out"

Next ==
    \/ Invoke
    \/ Rerun
    \/ LookupCourse
    \/ ParseDeadline
    \/ ParseWeight
    \/ GetOrCreate
    \/ BulkCreate
    \/ RecalcStats
    \/ SeedReview
    \/ WriteOk

Spec == Init /\ [][Next]_vars

(***************************************************************************)
(* render_markdown(text): the markdown converter followed by the HTML      *)
(* sanitizer.  Text and HTML are sequences of tokens: the punctuation      *)
(* "<", ">", "/", the names "script" and "b", and the words "Hello", "x".  *)
(***************************************************************************)
MdTokens == {"<", ">", "/", "script", "b", "Hello", "x"}

TagNames == {"script", "b", "p"}

AllowedTags == {"b", "p"}

MdWords == {"Hello", "x"}

MdInputs == UNION {[1..n -> MdTokens] : n \in 0..MaxMdLen}

\* the converter wraps the paragraph and passes inline HTML through
MarkdownToHtml(text) == <<"<", "p", ">">> \o text \o <<"<", "/", "p", ">">>

IsStartTag(s) == Len(s) >= 3 /\ s[1] = "<" /\ s[2] \in TagNames /\ s[3] = ">"

IsEndTag(s) ==
    Len(s) >= 4 /\ s[1] = "<" /\ s[2] = "/" /\ s[3] \in TagNames /\ s[4] = ">"

EscapeText(c) == IF c = "<" THEN "&lt;" ELSE IF c = ">" THEN "&gt;" ELSE c

Drop(s, n) == SubSeq(s, n + 1, Len(s))

\* the sanitizer: tags outside the allowed list are stripped, every other
\* "<" or ">" is text and is escaped
RECURSIVE Sanitize(_)
Sanitize(s) ==
    IF s = <<>> THEN <<>>
    ELSE IF IsStartTag(s)
    THEN (IF s[2] \in AllowedTags THEN SubSeq(s, 1, 3) ELSE <<>>)
         \o Sanitize(Drop(s, 3))
    ELSE IF IsEndTag(s)
    THEN (IF s[3] \in AllowedTags THEN SubSeq(s, 1, 4) ELSE <<>>)
         \o Sanitize(Drop(s, 4))
    ELSE <<EscapeText(s[1])>> \o Sanitize(Tail(s))

\* faulty variant: the converter's HTML is returned without sanitizing
RenderMarkdownOf_Unsanitized(text) == MarkdownToHtml(text)

RenderMarkdownOf(text) == Sanitize(MarkdownToHtml(text))

CmdIdle ==
    /\ pc = "idle"
    /\ argv = NoArgv
    /\ options = AddArguments(NoArgv)
    /\ loc = LocInit
    /\ todo = <<>>
    /\ log = <<>>
    /\ runs = 0
    /\ prev = "idle"

InitMarkdown ==
    /\ CmdIdle
    /\ assignments = {}
    /\ sas = {}
    /\ cts = {}
    /\ comments = {}
    /\ db0 = [assignments |-> {}, sas |-> {}, cts |-> {}, comments |-> {}]
    /\ mdText \in MdInputs
    /\ mdHtml = <<>>
    /\ mdPc = "in"

RenderMarkdown ==
    /\ mdPc = "in"
    /\ mdHtml' = RenderMarkdownOf(mdText)
    /\ mdPc' = "out"
    /\ UNCHANGED <<mdText, cmdVars>>

NextMarkdown == RenderMarkdown

SpecMarkdown == InitMarkdown /\ [][NextMarkdown]_vars

(***************************************************************************)
(* Vocabulary of the properties                                            *)
(***************************************************************************)
Has(name) == \E i \in 1..Len(log) : log[i].ev = name

Positions(name) == {i \in 1..Len(log) : log[i].ev = name}

Warnings == {"warning_usernames_required", "warning_user_not_found",
             "warning_sa_not_found"}

HasWarning == \E i \in 1..Len(log) : log[i].ev \in Warnings

\* the selector of the command line names no Course row
CourseMissing ==
    IF options.course_id # {}
    THEN \A c \in Courses : c.id # The(options.course_id)
    ELSE \A c \in Courses : c.meta_name # The(options.course_name)

DeadlineBad == ~Strptime(options.deadline).ok

WeightBad == ~DecimalOf(options.weight).ok

\* handle got past the stats loop and the review-seeding step
SeedStepDone == Has("bulk_create") /\ pc \in {"write_ok"} \cup Outcomes

\* a prerequisite of review seeding is absent
PrerequisiteAbsent ==
    \/ Falsy(options.student_username)
    \/ Falsy(options.teacher_username)
    \/ The(options.student_username) \notin Users
    \/ The(options.teacher_username) \notin Users
    \/ ~\E r \in sas : /\ r.assignment = loc.assignment
                       /\ r.student = The(options.student_username)

\* the Assignment rows of the selected course and stripped title
Selected == {r \in assignments : /\ r.course = loc.course
                                 /\ r.title = Strip(options.title)}

\* the StudentAssignment rows of the assignment of this run
RunSAs == {r \in sas : r.assignment = loc.assignment}

\* assignee and status of every StudentAssignment
ReviewState(table) ==
    {[id |-> r.id, assignee |-> r.assignee, status |-> r.status] : r \in table}

(***************************************************************************)
(* C1: a run whose course does not exist, whose --deadline strptime        *)
(* rejects or whose --weight Decimal rejects ends in CommandError and      *)
(* never writes the final "OK: assignment" message.                        *)
(***************************************************************************)
C1_BadInputEndsInCommandError ==
    (runs > 0 /\ (CourseMissing \/ DeadlineBad \/ WeightBad)) =>
        /\ ~Has("ok_assignment")
        /\ pc \in {"lookup_course", "parse_deadline", "parse_weight",
                   "command_error"}
        /\ (pc = "command_error" =>
              \/ (CourseMissing /\ Has("error_course"))
              \/ (~CourseMissing /\ DeadlineBad /\ Has("error_deadline"))
              \/ (~CourseMissing /\ ~DeadlineBad /\ Has("error_weight")))

C1_Witness ==
    /\ pc = "command_error"
    /\ ~CourseMissing /\ ~DeadlineBad /\ WeightBad
    /\ Has("error_weight")

(***************************************************************************)
(* C2: with --seed-review and a valid course, deadline and weight, once    *)
(* the seeding step has run with a prerequisite absent (a username option  *)
(* missing, no such student or teacher user, no StudentAssignment of the   *)
(* student), a warning was written, the command did not fail, the          *)
(* Assignment row is there and the run ends with "OK: assignment".         *)
(***************************************************************************)
C2_MissingPrerequisiteOnlyWarns ==
    (SeedStepDone /\ options.seed_review /\ PrerequisiteAbsent) =>
        /\ HasWarning
        /\ ~Has("ok_review")
        /\ pc \in {"write_ok", "done"}
        /\ \E r \in assignments : r.id = loc.assignment
        /\ (pc = "done" => log[Len(log)].ev = "ok_assignment")

C2_Witness ==
    /\ pc = "done"
    /\ options.seed_review
    /\ Has("warning_sa_not_found")
    /\ Has("ok_assignment")

(***************************************************************************)
(* C3: after a successful run exactly one Assignment exists for (selected  *)
(* course, stripped --title); its deadline_at, maximum_score, weight,      *)
(* submission_type and time_zone are the values of the command line, its   *)
(* assignee_mode is MANUAL, whether created or found; a row that existed   *)
(* keeps its title and text.                                               *)
(***************************************************************************)
C3_AssignmentMatchesCommandLine ==
    pc = "done" =>
        /\ Cardinality(Selected) = 1
        /\ \A r \in Selected :
             /\ r.id = loc.assignment
             /\ r.deadline_at = MakeAwareUtc(Strptime(options.deadline).dt)
             /\ r.maximum_score = options.max_score
             /\ r.weight = DecimalOf(options.weight).d
             /\ r.submission_type = options.submission_type
             /\ r.time_zone = TzNameOf(loc.course)
             /\ r.assignee_mode = "manual"
             /\ (~loc.created =>
                   \E old \in db0.assignments :
                      /\ old.id = r.id
                      /\ old.title = r.title
                      /\ old.text = r.text)

(***************************************************************************)
(* C4: the stored maximum_score is the integer given as --max-score, for   *)
(* every integer, and is 10 only when --max-score is omitted (or is 10).   *)
(***************************************************************************)
C4_MaxScoreIsTheArgument ==
    pc = "done" =>
        \A r \in Selected :
            /\ (argv.max_score # {} => r.maximum_score = The(argv.max_score))
            /\ (r.maximum_score = DefaultMaxScore =>
                  argv.max_score \in { {}, {DefaultMaxScore} })

(***************************************************************************)
(* C5: the HTML render_markdown returns holds no "<script" (a "<" token    *)
(* directly followed by the name script), and the words of the input are   *)
(* all in the output, in their order.                                      *)
(***************************************************************************)
RECURSIVE WordsOf(_)
WordsOf(s) ==
    IF s = <<>> THEN <<>>
    ELSE (IF s[1] \in MdWords THEN <<s[1]>> ELSE <<>>) \o WordsOf(Tail(s))

HasScriptTag(html) ==
    \E i \in 1..(Len(html) - 1) : html[i] = "<" /\ html[i + 1] = "script"

C5_NoScriptTagInRenderedHtml ==
    mdPc = "out" =>
        /\ ~HasScriptTag(mdHtml)
        /\ WordsOf(mdHtml) = WordsOf(mdText)

C5_Witness ==
    /\ mdPc = "out"
    /\ mdText = <<"Hello", "<", "script", ">">>
    /\ mdHtml = <<"<", "p", ">", "Hello", "<", "/", "p", ">">>

(***************************************************************************)
(* C6: in a successful run the log reads: the Assignment row created or    *)
(* updated; StudentAssignments bulk-created; one stats recalculation for   *)
(* each StudentAssignment of the assignment, none left out; the events of  *)
(* review seeding, only with --seed-review; the success message, last.     *)
(***************************************************************************)
SeedEvents == Warnings \cup {"ct_saved", "sa_saved", "comment_created",
                             "stats", "ok_review"}

C6_StepsInOrder ==
    pc = "done" =>
        LET n == Len(log)
            k == Cardinality(RunSAs)
        IN  /\ n >= k + 3
            /\ log[1].ev \in {"assignment_created", "assignment_updated"}
            /\ log[1].id = loc.assignment
            /\ log[2] = Ev("bulk_create", loc.assignment)
            /\ \A i \in 3..(k + 2) : log[i].ev = "stats"
            /\ {log[i].id : i \in 3..(k + 2)} = Ids(RunSAs)
            /\ \A i \in (k + 3)..(n - 1) :
                  log[i].ev \in SeedEvents /\ options.seed_review
            /\ log[n] = Ev("ok_assignment", loc.assignment)
            /\ \A r \in RunSAs : r.stats # {}

C6_Witness ==
    /\ pc = "done"
    /\ loc.created
    /\ Cardinality(RunSAs) = 2
    /\ Has("ok_review")

(***************************************************************************)
(* C7: once "OK: review seeded" is written, the StudentAssignment of the   *)
(* named student has the CourseTeacher link of the named teacher in the    *)
(* selected course as assignee and status ON_CHECKING, has a SOLUTION      *)
(* comment, and its stats were recalculated after these writes.            *)
(***************************************************************************)
C7_ReviewSeeded ==
    Has("ok_review") =>
        \E r \in RunSAs, ct \in cts :
            /\ r.student = The(options.student_username)
            /\ ct.course = loc.course
            /\ ct.teacher = The(options.teacher_username)
            /\ r.assignee = ct.id
            /\ r.status = "on_checking"
            /\ LET sols == {c \in comments : /\ c.student_assignment = r.id
                                             /\ c.type = "solution"}
                   last == CHOOSE i \in Positions("ok_review") : TRUE
               IN  /\ sols # {}
                   /\ log[last - 1] = Ev("stats", r.id)
                   /\ \A i \in Positions("sa_saved") \cup
                               Positions("comment_created") : i < last - 1
                   /\ r.stats = {Cardinality({c \in sols : c.is_published})}

C7_Witness ==
    /\ Has("ok_review")
    /\ Has("comment_created")
    /\ pc = "done"

(***************************************************************************)
(* C8: a run that ends in CommandError has left the four tables as they    *)
(* were when it started and has recalculated no statistics; no write       *)
(* comes before the three validations.                                     *)
(***************************************************************************)
C8_CommandErrorChangesNothing ==
    pc \in {"lookup_course", "parse_deadline", "parse_weight", "get_or_create",
            "command_error"} =>
        /\ Tables = db0
        /\ ~Has("stats")

C8_Witness ==
    /\ pc = "command_error"
    /\ Has("error_weight")
    /\ db0.sas # {}
    /\ Tables = db0

(***************************************************************************)
(* C9: whenever review seeding ended with a warning, the seeding step      *)
(* created no CourseTeacher row and changed no roles, changed no           *)
(* StudentAssignment's assignee or status and created no comment.          *)
(***************************************************************************)
C9_SkippedSeedingChangesNothing ==
    (SeedStepDone /\ HasWarning) =>
        /\ cts = db0.cts
        /\ comments = db0.comments
        /\ \A r \in sas :
              \/ \E old \in db0.sas : /\ old.id = r.id
                                      /\ old.assignee = r.assignee
                                      /\ old.status = r.status
              \/ /\ r.id \notin Ids(db0.sas)
                 /\ r.assignee = 0
                 /\ r.status = "not_submitted"

(***************************************************************************)
(* C10: a second successful run with the same command line right after a   *)
(* successful one reports created=False, adds no Assignment, no            *)
(* CourseTeacher link and no comment, and leaves the assignment fields     *)
(* and every StudentAssignment's assignee and status as they were.         *)
(***************************************************************************)
C10_SecondRunIsIdempotent ==
    (pc = "done" /\ prev = "done") =>
        /\ ~loc.created
        /\ assignments = db0.assignments
        /\ {[id |-> r.id, course |-> r.course, teacher |-> r.teacher] : r \in cts}
           = {[id |-> r.id, course |-> r.course, teacher |-> r.teacher] :
                r \in db0.cts}
        /\ comments = db0.comments
        /\ ReviewState(sas) = ReviewState(db0.sas)

C10_Witness ==
    /\ pc = "done"
    /\ prev = "done"
    /\ Has("ok_review")
    /\ comments # {}

====
